---- MODULE Spec2Model ----
(***************************************************************************)
(* The Python devappserver2 runtime launcher (runtime.py): main() decodes  *)
(* its configuration, optionally runs a startup script, wires the API      *)
(* stubs and the sandbox or falls back to the startup-failure application, *)
(* starts a WSGI server on an ephemeral port, announces the port on        *)
(* standard output, redirects standard output and idles until interrupted. *)
(* The main thread is a sequential program (pc); the WSGI server's request *)
(* handling and the delivery of SIGINT interleave with it.                 *)
(***************************************************************************)
EXTENDS Integers, Sequences, FiniteSets, TLC

VARIABLES
  pc,              \* position of the main thread inside main()
  config,          \* runtime_config_pb2.Config after ParseFromString
  debugging_app,   \* main's local: None or a StartupScriptFailureApplication
  my_ip_address,   \* main's local read from /etc/appscale/my_private_ip
  nginx_host,      \* main's local read from /etc/appscale/login_ip
  environ,         \* os.environ entries MY_IP_ADDRESS and NGINX_HOST
  remote_api,      \* what remote_api_stub.ConfigureRemoteApi was given
  rdbms,           \* binding of google.appengine.api.rdbms
  connect_kwargs,  \* what rdbms_mysqldb.SetConnectKwargs was given
  sandbox,         \* whether sandbox.enable_sandbox has run
  expanduser,      \* binding of os.path.expanduser
  request_handler, \* how the request_handler module was imported
  server,          \* the wsgi_server.WsgiServer object
  stdout,          \* lines written to the process's primary output stream
  sys_stdout,      \* what sys.stdout is: the stream, closed, or stderr
  response,        \* the server's latest request and its response
  trace,           \* lifecycle states the process has gone through
  abortCause,      \* the error that left main(), if any
  calls,           \* number of calls of each collaborator made by main()
  scriptError,     \* what the startup script raised, if anything
  signals,         \* number of SIGINTs delivered so far
  ticks,           \* sleep ticks spent in the idle loop
  requests,        \* number of requests sent to the server so far
  platform,        \* os.name and what FindUnixSocket() returned to setup_stubs
  log,             \* warnings logged by setup_stubs
  zk,              \* ZooKeeper: the project node and its queues node
  hpc,             \* position of each UpdateQueues request inside post()
  hreq,            \* each UpdateQueues request as received
  outcome,         \* how each UpdateQueues request ended
  writes           \* ZooKeeper writes each UpdateQueues request has made

vars == <<pc, config, debugging_app, my_ip_address, nginx_host, environ,
          remote_api, rdbms, connect_kwargs, sandbox, expanduser,
          request_handler, server, stdout, sys_stdout, response, trace,
          abortCause, calls, scriptError, signals, ticks, requests,
          platform, log, zk, hpc, hreq, outcome, writes>>

\* Bounds of the model.
MaxRequests == 2
MaxSignals == 2
MaxTicks == 2
MaxHandlers == 2

----------------------------------------------------------------------------
\* Values

None == [kind |-> "None"]
NoneStr == <<"None">>

NoSqlConfig == [present |-> FALSE, mysql_host |-> "", mysql_port |-> 0,
                mysql_user |-> "", mysql_password |-> "", mysql_socket |-> ""]

CloudSqlConfigs ==
  {NoSqlConfig} \cup
  [present : {TRUE}, mysql_host : {"localhost", "db.example"},
   mysql_port : {3306}, mysql_user : {"root"}, mysql_password : {"pw"},
   mysql_socket : {"", "/tmp/mysql.sock"}]

\* The Config messages the parent may send.
Configs ==
  [kind : {"Config"}, app_id : {"guestbook"}, api_port : {8080},
   python_config : [startup_script : {"", "startup.py"}],
   cloud_sql_config : CloudSqlConfigs]

\* What is read from standard input: the base64 of a serialized Config, or
\* bytes that do not decode.
StdinInputs == [ok : {TRUE}, cfg : Configs] \cup {[ok |-> FALSE, cfg |-> None]}

\* What the startup script may raise.  SystemExit does not derive from
\* Exception; the message of the ValueError is a unicode string with a
\* non-ASCII character.
ScriptErrors ==
  { [cls |-> "RuntimeError", msg |-> <<"boom">>, isException |-> TRUE,
     ascii |-> TRUE],
    [cls |-> "SyntaxError", msg |-> <<"invalid", "syntax">>,
     isException |-> TRUE, ascii |-> TRUE],
    [cls |-> "ValueError", msg |-> <<"caf", "U+00E9">>,
     isException |-> TRUE, ascii |-> FALSE],
    [cls |-> "SystemExit", msg |-> <<"1">>, isException |-> FALSE,
     ascii |-> TRUE] }

NoError == [cls |-> "None", msg |-> <<>>, isException |-> FALSE,
            ascii |-> TRUE]

\* Contents of the two files under /etc/appscale, as character sequences.
PrivateIpFiles == { <<"7", "NL">>, <<"SP", "7", "NL">>, <<"7">> }
LoginIpFiles == { <<"9", "NL">>, <<"9", "NL", "8", "NL">>, <<"9">> }

\* Ports the operating system may assign to a bind to port 0.
EphemeralPorts == {80, 49152}

Methods == {"GET", "POST"}
Paths == {"/", "/_ah/start"}

NoServer == [app |-> None, state |-> "none", port |-> 0]

NoCalls == [execfile |-> 0, setup_stubs |-> 0, enable_sandbox |-> 0,
            start |-> 0, quit |-> 0]

----------------------------------------------------------------------------
\* Pure helpers

Digits == <<"0", "1", "2", "3", "4", "5", "6", "7", "8", "9">>

RECURSIVE ToDecimal(_)
\* str(n) of a non-negative integer, as its sequence of digit characters.
ToDecimal(n) ==
  IF n < 10 THEN <<Digits[n + 1]>>
  ELSE Append(ToDecimal(n \div 10), Digits[(n % 10) + 1])

IsSpace(c) == c \in {"SP", "NL"}

RECURSIVE LStrip(_)
LStrip(s) == IF s # <<>> /\ IsSpace(Head(s)) THEN LStrip(Tail(s)) ELSE s

RECURSIVE RStrip(_)
RStrip(s) ==
  IF s # <<>> /\ IsSpace(s[Len(s)]) THEN RStrip(SubSeq(s, 1, Len(s) - 1)) ELSE s

\* file_handle.read().strip()
Strip(s) == RStrip(LStrip(s))

RECURSIVE FirstLine(_)
\* raw_ips.split('\n')[0]
FirstLine(s) ==
  IF s = <<>> \/ Head(s) = "NL" THEN <<>> ELSE <<Head(s)>> \o FirstLine(Tail(s))

\* Whether the token sequence part occurs in s.
Contains(s, part) ==
  \E i \in 0..(Len(s) - Len(part)) : SubSeq(s, i + 1, i + Len(part)) = part

----------------------------------------------------------------------------
\* The pieces of runtime.py that compute values

\* Mutant of StartupScriptConfigured: only config.python_config is tested.
StartupScriptConfigured_MessageOnly(cfg) == TRUE

\* config.python_config and config.python_config.startup_script: a message
\* object is always true, a string is true when it is not empty.
StartupScriptConfigured(cfg) == cfg.python_config.startup_script # ""

\* str(e): the message, encoded with the ascii codec when it is unicode
Str(e) == e.msg

\* Whether str(e) raises UnicodeEncodeError
StrRaises(e) == ~e.ascii

\* traceback.format_exc()
FormatExc(e) == <<"Traceback", e.cls>> \o e.msg

\* str(self._config)
ConfigStr(cfg) ==
  <<"app_id:", cfg.app_id, "api_port:">> \o ToDecimal(cfg.api_port)

\* StartupScriptFailureApplication.__init__
StartupScriptFailureApplication(cfg, exception_message, formatted_traceback) ==
  [kind |-> "StartupScriptFailureApplication", config |-> cfg,
   exception_message |-> exception_message,
   formatted_traceback |-> formatted_traceback]

\* _STARTUP_FAILURE_TEMPLATE.format(...)
StartupFailureTemplate(exception_message, cfgText, tb) ==
  <<"<html>", "<b>", "Debugger", "startup", "failed:">> \o exception_message
    \o <<"</b>", "<code>">> \o cfgText
    \o <<"</code>", "<code>">> \o tb \o <<"</code>", "</html>">>

\* Mutant of FailureAppCall: only GET requests get the diagnostic page.
FailureAppCall_GetOnly(app, method, path) ==
  IF method = "GET"
    THEN [status |-> 500, reason |-> "Internal Server Error",
          content_type |-> "text/html",
          body |-> StartupFailureTemplate(app.exception_message,
                                          ConfigStr(app.config),
                                          app.formatted_traceback)]
    ELSE [status |-> 405, reason |-> "Method Not Allowed",
          content_type |-> "text/html", body |-> <<>>]

\* StartupScriptFailureApplication.__call__: the same response whatever the
\* request's environ is.
FailureAppCall(app, method, path) ==
  [status |-> 500, reason |-> "Internal Server Error",
   content_type |-> "text/html",
   body |-> StartupFailureTemplate(app.exception_message,
                                   ConfigStr(app.config),
                                   app.formatted_traceback)]

\* Mutant of Truthy: the test of line 142 inverted.
Truthy_Inverted(app) == app = None

\* if debugging_app: an instance of a class without __nonzero__ is true,
\* None is false.
Truthy(app) == app # None

\* expand_user(path)
expand_user(path) == path

\* The handler the real path registers: the RequestHandler wrapped in the
\* rewriting middleware.
RealApplication(cfg) ==
  [kind |-> "runtime_rewriter_middleware",
   inner |-> [kind |-> "RequestHandler", config |-> cfg]]

\* Mutant of ConnectKwargs: the default-socket lookup is used on a POSIX
\* system whatever the host is.
ConnectKwargs_AnyHost(sql, os_name, found) ==
  LET base == [host |-> sql.mysql_host, port |-> sql.mysql_port,
               user |-> sql.mysql_user, passwd |-> sql.mysql_password,
               has_unix_socket |-> FALSE, unix_socket |-> <<"None">>]
  IN IF sql.mysql_socket # ""
       THEN [base EXCEPT !.has_unix_socket = TRUE,
                         !.unix_socket = <<sql.mysql_socket>>]
     ELSE IF os_name = "posix"
       THEN [base EXCEPT !.has_unix_socket = TRUE, !.unix_socket = found]
     ELSE base

\* connect_kwargs of setup_stubs: os_name is os.name, found is what
\* rdbms_mysqldb.FindUnixSocket() returns.
ConnectKwargs(sql, os_name, found) ==
  LET base == [host |-> sql.mysql_host, port |-> sql.mysql_port,
               user |-> sql.mysql_user, passwd |-> sql.mysql_password,
               has_unix_socket |-> FALSE, unix_socket |-> NoneStr]
  IN IF sql.mysql_socket # ""
       THEN [base EXCEPT !.has_unix_socket = TRUE,
                         !.unix_socket = <<sql.mysql_socket>>]
     ELSE IF os_name = "posix" /\ sql.mysql_host = "localhost"
       THEN [base EXCEPT !.has_unix_socket = TRUE, !.unix_socket = found]
     ELSE base

NoKwargs == [host |-> "", port |-> 0, user |-> "", passwd |-> "",
             has_unix_socket |-> FALSE, unix_socket |-> NoneStr]

FoundSockets == {NoneStr, <<"/var/run/mysqld/mysqld.sock">>}

OsNames == {"posix", "nt"}

\* Whether setup_stubs reaches the FindUnixSocket() call of line 92.
FindUnixSocketCalled(sql, os_name) ==
  sql.mysql_socket = "" /\ os_name = "posix" /\ sql.mysql_host = "localhost"

NoPlatform == [os_name |-> "", FindUnixSocket |-> <<"not called">>]

----------------------------------------------------------------------------
\* The state after the interpreter has started and before main() runs.

LauncherInit ==
  /\ pc = "decode"
  /\ config = None
  /\ debugging_app = None
  /\ my_ip_address = NoneStr
  /\ nginx_host = NoneStr
  /\ environ = [MY_IP_ADDRESS |-> NoneStr, NGINX_HOST |-> NoneStr]
  /\ remote_api = None
  /\ rdbms = "rdbms"
  /\ connect_kwargs = NoKwargs
  /\ sandbox = FALSE
  /\ expanduser = "os.path.expanduser"
  /\ request_handler = "not imported"
  /\ server = NoServer
  /\ stdout = <<>>
  /\ sys_stdout = "stdout"
  /\ response = None
  /\ trace = <<"Starting">>
  /\ abortCause = "none"
  /\ calls = NoCalls
  /\ scriptError = NoError
  /\ signals = 0
  /\ ticks = 0
  /\ requests = 0
  /\ platform = NoPlatform
  /\ log = <<>>

locals == <<debugging_app, my_ip_address, nginx_host>>
stubs == <<remote_api, rdbms, connect_kwargs, platform, log>>
admin == <<zk, hpc, hreq, outcome, writes>>
sbx == <<sandbox, expanduser, request_handler>>
io == <<stdout, sys_stdout>>
outside == <<response, signals, ticks, requests>>
launcher == <<pc, config, locals, environ, stubs, sbx, server, io, outside,
              trace, abortCause, calls, scriptError>>

\* An exception leaves main(): the interpreter prints the traceback on
\* stderr and the process exits, taking a started server with it.
Abort(cause) ==
  /\ pc' = "aborted"
  /\ abortCause' = cause
  /\ server' = IF server.state = "serving"
                 THEN [server EXCEPT !.state = "dead"] ELSE server

Called(f) == [calls EXCEPT ![f] = @ + 1]

----------------------------------------------------------------------------
\* The AdminServer's UpdateQueues handler (appengine_api.py).  Requests are
\* handled by the admin servers of the deployment, each a process of its own
\* talking to the same ZooKeeper, so the ZooKeeper calls of different
\* requests interleave.

Handlers == 1..MaxHandlers

NoNode == [exists |-> FALSE, data |-> <<>>, writer |-> 0]

\* States of /appscale/projects/<project_id> and its queues child before the
\* requests arrive.
ZkStates ==
  { [project |-> FALSE, queues |-> NoNode],
    [project |-> TRUE, queues |-> NoNode],
    [project |-> TRUE,
     queues |-> [exists |-> TRUE, data |-> <<"{}">>, writer |-> 0]] }

NoDoc == [valid |-> FALSE, queue |-> <<>>]

\* Request bodies: YAML that loads into a valid or an invalid queue
\* configuration, and YAML that the parser or the scanner rejects.
Bodies ==
  { [yaml |-> "ok", doc |-> [valid |-> TRUE, queue |-> <<"default">>]],
    [yaml |-> "ok", doc |-> [valid |-> TRUE, queue |-> <<"default", "mail">>]],
    [yaml |-> "ok", doc |-> [valid |-> FALSE, queue |-> <<"rate:", "fast">>]],
    [yaml |-> "ParserError", doc |-> NoDoc],
    [yaml |-> "ScannerError", doc |-> NoDoc] }

Requests ==
  [app_id : {"", "guestbook"}, authenticated : BOOLEAN, body : Bodies]

NoRequest == [app_id |-> "", authenticated |-> FALSE,
              body |-> [yaml |-> "none", doc |-> NoDoc]]

\* self.get_argument('app_id', None) is None
AppIdMissing(req) == req.app_id = ""

\* yaml.safe_load(self.request.body)
SafeLoad(body) == body.doc

\* queues_from_dict(payload)
QueuesFromDict(payload) == [queue |-> payload.queue]

\* json.dumps(queues)
JsonDumps(queues) == <<"{", "queue:", "[">> \o queues.queue \o <<"]", "}">>

\* What post() writes for a request.
QueuesJson(req) == JsonDumps(QueuesFromDict(SafeLoad(req.body)))

\* Mutant of Validate: the queue configuration is not checked.
Validate_SkipsQueueCheck(req) ==
  IF req.app_id = "" THEN "400 app_id parameter is required"
  ELSE IF ~req.authenticated THEN "authentication failed"
  ELSE IF req.body.yaml = "ParserError" THEN "InvalidConfiguration"
  ELSE IF req.body.yaml # "ok" THEN req.body.yaml
  ELSE "ok"

\* Lines 35-49 of post(): the error the request is rejected with, in the
\* order the checks are made, or "ok".
Validate(req) ==
  IF AppIdMissing(req) THEN "400 app_id parameter is required"
  ELSE IF ~req.authenticated THEN "authentication failed"
  ELSE IF req.body.yaml = "ParserError" THEN "InvalidConfiguration"
  ELSE IF req.body.yaml # "ok" THEN req.body.yaml
  ELSE IF ~SafeLoad(req.body).valid THEN "400 invalid configuration"
  ELSE "ok"

NoWrites == [attempts |-> 0, done |-> 0]

AdminQuiet ==
  /\ zk = [project |-> FALSE, queues |-> NoNode]
  /\ hpc = [h \in Handlers |-> "ready"]
  /\ hreq = [h \in Handlers |-> NoRequest]
  /\ outcome = [h \in Handlers |-> "none"]
  /\ writes = [h \in Handlers |-> NoWrites]

\* The launcher's initial state; no UpdateQueues request is in progress.
Init == LauncherInit /\ AdminQuiet

\* The admin servers' initial state: ZooKeeper in one of its states, no
\* request received yet.
AdminInit ==
  /\ LauncherInit
  /\ zk \in ZkStates
  /\ hpc = [h \in Handlers |-> "ready"]
  /\ hreq = [h \in Handlers |-> NoRequest]
  /\ outcome = [h \in Handlers |-> "none"]
  /\ writes = [h \in Handlers |-> NoWrites]

\* lines 35-51: a request arrives and is validated
Receive(h) ==
  /\ hpc[h] = "ready"
  /\ \E req \in Requests :
       /\ hreq' = [hreq EXCEPT ![h] = req]
       /\ IF Validate(req) = "ok"
            THEN /\ hpc' = [hpc EXCEPT ![h] = "set"]
                 /\ UNCHANGED outcome
            ELSE /\ hpc' = [hpc EXCEPT ![h] = "done"]
                 /\ outcome' = [outcome EXCEPT ![h] = Validate(req)]
  /\ UNCHANGED <<zk, writes, launcher>>

\* lines 52-54: zk_client.set raises NoNodeError when the node is missing
ZkSet(h) ==
  /\ hpc[h] = "set"
  /\ IF zk.queues.exists
       THEN /\ zk' = [zk EXCEPT !.queues = [exists |-> TRUE,
                                            data |-> QueuesJson(hreq[h]),
                                            writer |-> h]]
            /\ writes' = [writes EXCEPT ![h] = [attempts |-> @.attempts + 1,
                                                done |-> @.done + 1]]
            /\ hpc' = [hpc EXCEPT ![h] = "log"]
       ELSE /\ writes' = [writes EXCEPT ![h].attempts = @ + 1]
            /\ hpc' = [hpc EXCEPT ![h] = "create"]
            /\ UNCHANGED zk
  /\ UNCHANGED <<hreq, outcome, launcher>>

\* Mutant of ZkCreate: the node is created without the queue configuration.
ZkCreate_WritesEmpty(h) ==
  /\ hpc[h] = "create"
  /\ writes' = [writes EXCEPT ![h] =
                  [attempts |-> @.attempts + 1,
                   done |-> IF zk.project /\ ~zk.queues.exists
                              THEN @.done + 1 ELSE @.done]]
  /\ \/ /\ ~zk.project
        /\ outcome' = [outcome EXCEPT ![h] = "404 not found"]
        /\ hpc' = [hpc EXCEPT ![h] = "done"]
        /\ UNCHANGED zk
     \/ /\ zk.project
        /\ zk.queues.exists
        /\ outcome' = [outcome EXCEPT ![h] = "NodeExistsError"]
        /\ hpc' = [hpc EXCEPT ![h] = "done"]
        /\ UNCHANGED zk
     \/ /\ zk.project
        /\ ~zk.queues.exists
        /\ zk' = [zk EXCEPT !.queues = [exists |-> TRUE, data |-> <<>>,
                                        writer |-> h]]
        /\ hpc' = [hpc EXCEPT ![h] = "log"]
        /\ UNCHANGED outcome
  /\ UNCHANGED <<hreq, launcher>>

\* lines 55-59: zk_client.create raises NoNodeError when the parent is
\* missing and NodeExistsError, which post() does not catch, when the node
\* is there
ZkCreate(h) ==
  /\ hpc[h] = "create"
  /\ writes' = [writes EXCEPT ![h] =
                  [attempts |-> @.attempts + 1,
                   done |-> IF zk.project /\ ~zk.queues.exists
                              THEN @.done + 1 ELSE @.done]]
  /\ \/ /\ ~zk.project
        /\ outcome' = [outcome EXCEPT ![h] = "404 not found"]
        /\ hpc' = [hpc EXCEPT ![h] = "done"]
        /\ UNCHANGED zk
     \/ /\ zk.project
        /\ zk.queues.exists
        /\ outcome' = [outcome EXCEPT ![h] = "NodeExistsError"]
        /\ hpc' = [hpc EXCEPT ![h] = "done"]
        /\ UNCHANGED zk
     \/ /\ zk.project
        /\ ~zk.queues.exists
        /\ zk' = [zk EXCEPT !.queues = [exists |-> TRUE,
                                        data |-> QueuesJson(hreq[h]),
                                        writer |-> h]]
        /\ hpc' = [hpc EXCEPT ![h] = "log"]
        /\ UNCHANGED outcome
  /\ UNCHANGED <<hreq, launcher>>

\* line 61: post() returns and the request is answered with 200
LogUpdated(h) ==
  /\ hpc[h] = "log"
  /\ outcome' = [outcome EXCEPT ![h] = "200"]
  /\ hpc' = [hpc EXCEPT ![h] = "done"]
  /\ UNCHANGED <<zk, hreq, writes, launcher>>

AdminNext ==
  \/ \E h \in Handlers : Receive(h)
  \/ \E h \in Handlers : ZkSet(h)
  \/ \E h \in Handlers : ZkCreate(h)
  \/ \E h \in Handlers : LogUpdated(h)

AdminSpec == AdminInit /\ [][AdminNext]_vars

----------------------------------------------------------------------------
\* main(), one action per step

\* lines 120-121
DecodeConfig ==
  /\ pc = "decode"
  /\ \E input \in StdinInputs :
       \/ /\ input.ok
          /\ config' = input.cfg
          /\ pc' = "check_script"
          /\ UNCHANGED <<abortCause, server>>
       \/ /\ ~input.ok
          /\ Abort("decode")
          /\ UNCHANGED config
  /\ UNCHANGED <<admin, locals, environ, stubs, sbx, io, outside, trace,
                 calls,
                 scriptError>>

\* lines 122-123
CheckStartupScript ==
  /\ pc = "check_script"
  /\ debugging_app' = None
  /\ IF StartupScriptConfigured(config)
       THEN pc' = "execfile" /\ trace' = Append(trace, "AwaitingStartupScript")
       ELSE pc' = "read_private_ip" /\ UNCHANGED trace
  /\ UNCHANGED <<admin, config, my_ip_address, nginx_host, environ, stubs, sbx,
                 server, io, outside, abortCause, calls, scriptError>>

\* except Exception, e (line 127)
Caught(e) == e.isException

\* lines 124-130: execfile of the startup script and the except clause
ExecStartupScript ==
  /\ pc = "execfile"
  /\ calls' = Called("execfile")
  /\ \/ /\ pc' = "read_private_ip"
        /\ UNCHANGED <<debugging_app, scriptError, trace, abortCause, server>>
     \/ \E e \in ScriptErrors :
          /\ Caught(e)
          /\ ~StrRaises(e)
          /\ scriptError' = e
          /\ debugging_app' =
               StartupScriptFailureApplication(config, Str(e), FormatExc(e))
          /\ trace' = Append(trace, "Failed")
          /\ pc' = "read_private_ip"
          /\ UNCHANGED <<abortCause, server>>
     \/ \E e \in ScriptErrors :
          /\ Caught(e)
          /\ StrRaises(e)
          /\ scriptError' = e
          /\ Abort("exception_message")
          /\ UNCHANGED <<debugging_app, trace>>
     \/ \E e \in ScriptErrors :
          /\ ~Caught(e)
          /\ scriptError' = e
          /\ Abort("startup_script")
          /\ UNCHANGED <<debugging_app, trace>>
  /\ UNCHANGED <<admin, config, my_ip_address, nginx_host, environ, stubs, sbx, io,
                 outside>>

\* lines 132-134
ReadPrivateIp ==
  /\ pc = "read_private_ip"
  /\ \/ \E content \in PrivateIpFiles :
          /\ my_ip_address' = Strip(content)
          /\ pc' = "read_login_ip"
          /\ UNCHANGED <<abortCause, server>>
     \/ /\ Abort("my_private_ip")
        /\ UNCHANGED my_ip_address
  /\ UNCHANGED <<admin, config, debugging_app, nginx_host, environ, stubs, sbx, io,
                 outside, trace, calls, scriptError>>

\* lines 136-140
ReadLoginIp ==
  /\ pc = "read_login_ip"
  /\ \/ \E raw_ips \in LoginIpFiles :
          /\ nginx_host' = FirstLine(raw_ips)
          /\ pc' = "branch"
          /\ UNCHANGED <<abortCause, server>>
     \/ /\ Abort("login_ip")
        /\ UNCHANGED nginx_host
  /\ UNCHANGED <<admin, config, debugging_app, my_ip_address, environ, stubs, sbx,
                 io, outside, trace, calls, scriptError>>

\* lines 142-145: the failure path builds the server around debugging_app
CreateFailureServer ==
  /\ pc = "branch"
  /\ Truthy(debugging_app)
  /\ server' = [app |-> debugging_app, state |-> "created", port |-> 0]
  /\ trace' = Append(trace, "ServingFailure")
  /\ pc' = "start"
  /\ UNCHANGED <<admin, config, locals, environ, stubs, sbx, io, outside,
                 abortCause, calls, scriptError>>

\* Mutant of SetupStubs: a warning is logged when FindUnixSocket() returns
\* None.
SetupStubs_WarnsOnMissingSocket ==
  /\ pc = "branch"
  /\ ~Truthy(debugging_app)
  /\ calls' = Called("setup_stubs")
  /\ \/ /\ remote_api' = [app_id |-> config.app_id, path |-> "/",
                          servername |-> <<"localhost:">> \o ToDecimal(config.api_port),
                          use_remote_datastore |-> FALSE,
                          use_async_rpc |-> TRUE]
        /\ IF config.cloud_sql_config.present
             THEN /\ rdbms' = "rdbms_mysqldb"
                  /\ \E os_name \in OsNames, found \in FoundSockets :
                       /\ platform' =
                            [os_name |-> os_name,
                             FindUnixSocket |->
                               IF FindUnixSocketCalled(config.cloud_sql_config,
                                                       os_name)
                                 THEN found ELSE <<"not called">>]
                       /\ connect_kwargs' =
                            ConnectKwargs(config.cloud_sql_config, os_name,
                                          found)
                       /\ log' =
                            IF /\ FindUnixSocketCalled(config.cloud_sql_config,
                                                       os_name)
                               /\ found = NoneStr
                              THEN Append(log, "unable to find MySQL socket")
                              ELSE log
             ELSE UNCHANGED <<rdbms, connect_kwargs, platform, log>>
        /\ trace' = Append(trace, "StubsWired")
        /\ pc' = "enable_sandbox"
        /\ UNCHANGED <<abortCause, server>>
     \/ /\ Abort("setup_stubs")
        /\ UNCHANGED <<stubs, trace>>
  /\ UNCHANGED <<admin, config, locals, environ, sbx, io, outside, scriptError>>

\* lines 146-147 and setup_stubs (lines 57-94)
SetupStubs ==
  /\ pc = "branch"
  /\ ~Truthy(debugging_app)
  /\ calls' = Called("setup_stubs")
  /\ \/ /\ remote_api' = [app_id |-> config.app_id, path |-> "/",
                          servername |-> <<"localhost:">> \o ToDecimal(config.api_port),
                          use_remote_datastore |-> FALSE,
                          use_async_rpc |-> TRUE]
        /\ IF config.cloud_sql_config.present
             THEN /\ rdbms' = "rdbms_mysqldb"
                  /\ \E os_name \in OsNames, found \in FoundSockets :
                       /\ platform' =
                            [os_name |-> os_name,
                             FindUnixSocket |->
                               IF FindUnixSocketCalled(config.cloud_sql_config,
                                                       os_name)
                                 THEN found ELSE <<"not called">>]
                       /\ connect_kwargs' =
                            ConnectKwargs(config.cloud_sql_config, os_name,
                                          found)
             ELSE UNCHANGED <<rdbms, connect_kwargs, platform>>
        /\ UNCHANGED log
        /\ trace' = Append(trace, "StubsWired")
        /\ pc' = "enable_sandbox"
        /\ UNCHANGED <<abortCause, server>>
     \/ /\ Abort("setup_stubs")
        /\ UNCHANGED <<stubs, trace>>
  /\ UNCHANGED <<admin, config, locals, environ, sbx, io, outside, scriptError>>

\* Mutant of EnableSandbox: the request_handler import of line 152 is done
\* before the sandbox is enabled.
EnableSandbox_AfterImport ==
  /\ pc = "enable_sandbox"
  /\ calls' = Called("enable_sandbox")
  /\ request_handler' = IF sandbox THEN "imported sandboxed"
                                   ELSE "imported unsandboxed"
  /\ sandbox' = TRUE
  /\ expanduser' = "expand_user"
  /\ trace' = Append(trace, "Sandboxed")
  /\ pc' = "set_environ"
  /\ UNCHANGED <<admin, config, locals, environ, stubs, server, io, outside,
                 abortCause, scriptError>>

\* lines 148-149
EnableSandbox ==
  /\ pc = "enable_sandbox"
  /\ calls' = Called("enable_sandbox")
  /\ \/ /\ sandbox' = TRUE
        /\ expanduser' = "expand_user"
        /\ trace' = Append(trace, "Sandboxed")
        /\ pc' = "import_request_handler"
        /\ UNCHANGED <<abortCause, server>>
     \/ /\ Abort("enable_sandbox")
        /\ UNCHANGED <<sandbox, expanduser, trace>>
  /\ UNCHANGED <<admin, config, locals, environ, stubs, request_handler, io, outside,
                 scriptError>>

\* lines 150-152: the import sees whatever the sandbox state is at this point
ImportRequestHandler ==
  /\ pc = "import_request_handler"
  /\ request_handler' = IF sandbox THEN "imported sandboxed"
                                   ELSE "imported unsandboxed"
  /\ pc' = "set_environ"
  /\ UNCHANGED <<admin, config, locals, environ, stubs, sandbox, expanduser, server,
                 io, outside, trace, abortCause, calls, scriptError>>

\* Mutant of SetEnviron: NGINX_HOST is not exported.
SetEnviron_SkipsNginxHost ==
  /\ pc = "set_environ"
  /\ environ' = [environ EXCEPT !.MY_IP_ADDRESS = my_ip_address]
  /\ pc' = "create_server"
  /\ UNCHANGED <<admin, config, locals, stubs, sbx, server, io, outside, trace,
                 abortCause, calls, scriptError>>

\* lines 154-155
SetEnviron ==
  /\ pc = "set_environ"
  /\ environ' = [MY_IP_ADDRESS |-> my_ip_address, NGINX_HOST |-> nginx_host]
  /\ pc' = "create_server"
  /\ UNCHANGED <<admin, config, locals, stubs, sbx, server, io, outside, trace,
                 abortCause, calls, scriptError>>

\* lines 156-159
CreateRealServer ==
  /\ pc = "create_server"
  /\ server' = [app |-> RealApplication(config), state |-> "created",
                port |-> 0]
  /\ trace' = Append(trace, "ServingReal")
  /\ pc' = "start"
  /\ UNCHANGED <<admin, config, locals, environ, stubs, sbx, io, outside,
                 abortCause, calls, scriptError>>

\* Mutant of ServerStart: a failed bind is swallowed and main() goes on.
ServerStart_SwallowsBindError ==
  /\ pc = "start"
  /\ calls' = Called("start")
  /\ \/ \E port \in EphemeralPorts :
          /\ server' = [server EXCEPT !.state = "serving", !.port = port]
          /\ trace' = Append(trace, "ServerStarted")
     \/ UNCHANGED <<server, trace>>
  /\ pc' = "print"
  /\ UNCHANGED <<admin, config, locals, environ, stubs, sbx, io, outside,
                 abortCause, scriptError>>

\* line 160: binds ('localhost', 0) and starts serving in the server's own
\* threads; a failed bind raises
ServerStart ==
  /\ pc = "start"
  /\ calls' = Called("start")
  /\ \/ \E port \in EphemeralPorts :
          /\ server' = [server EXCEPT !.state = "serving", !.port = port]
          /\ trace' = Append(trace, "ServerStarted")
          /\ pc' = "print"
          /\ UNCHANGED abortCause
     \/ /\ Abort("bind")
        /\ UNCHANGED trace
  /\ UNCHANGED <<admin, config, locals, environ, stubs, sbx, io, outside,
                 scriptError>>

\* A print statement: a line goes to whatever sys.stdout is bound to.
WriteLine(line) ==
  /\ stdout' = IF sys_stdout = "stdout" THEN Append(stdout, line) ELSE stdout
  /\ UNCHANGED sys_stdout

\* Mutant of PrintPort: the API stub is configured again once the port is
\* known.
PrintPort_ReconfiguresStub ==
  /\ pc = "print"
  /\ WriteLine(ToDecimal(server.port))
  /\ remote_api' = [app_id |-> config.app_id, path |-> "/",
                    servername |-> <<"localhost:">> \o ToDecimal(server.port),
                    use_remote_datastore |-> FALSE,
                    use_async_rpc |-> TRUE]
  /\ trace' = Append(trace, "HandshakeSent")
  /\ pc' = "close"
  /\ UNCHANGED <<admin, config, locals, environ, rdbms, connect_kwargs,
                 platform, log, sbx, server, outside, abortCause, calls,
                 scriptError>>

\* line 161
PrintPort ==
  /\ pc = "print"
  /\ WriteLine(ToDecimal(server.port))
  /\ trace' = Append(trace, "HandshakeSent")
  /\ pc' = "close"
  /\ UNCHANGED <<admin, config, locals, environ, stubs, sbx, server, outside,
                 abortCause, calls, scriptError>>

\* line 162
CloseStdout ==
  /\ pc = "close"
  /\ sys_stdout' = "closed"
  /\ pc' = "rebind"
  /\ UNCHANGED <<admin, config, locals, environ, stubs, sbx, server, stdout,
                 outside, trace, abortCause, calls, scriptError>>

\* lines 163-165: sys.stdout = sys.stderr, then the try block is entered
RebindStdout ==
  /\ pc = "rebind"
  /\ sys_stdout' = "stderr"
  /\ trace' = Append(trace, "Idle")
  /\ pc' = "idle"
  /\ UNCHANGED <<admin, config, locals, environ, stubs, sbx, server, stdout,
                 outside, abortCause, calls, scriptError>>

\* Mutant of SleepTick: the loop gives up after a number of ticks.
SleepTick_TimesOut ==
  /\ pc = "idle"
  /\ ticks < MaxTicks
  /\ ticks' = ticks + 1
  /\ pc' = IF ticks + 1 >= MaxTicks THEN "finally" ELSE "idle"
  /\ UNCHANGED <<admin, config, locals, environ, stubs, sbx, server, io, response,
                 signals, requests, trace, abortCause, calls, scriptError>>

\* lines 165-166: one time.sleep(1) of the while True loop
SleepTick ==
  /\ pc = "idle"
  /\ ticks < MaxTicks
  /\ ticks' = ticks + 1
  /\ pc' = "idle"
  /\ UNCHANGED <<admin, config, locals, environ, stubs, sbx, server, io, response,
                 signals, requests, trace, abortCause, calls, scriptError>>

\* SIGINT: Python raises KeyboardInterrupt in the main thread, wherever it
\* is.  Only the try block of lines 164-168 catches it (except Exception of
\* line 127 does not); its finally clause then runs.
KeyboardInterrupt ==
  /\ pc \notin {"terminated", "aborted"}
  /\ signals < MaxSignals
  /\ signals' = signals + 1
  /\ \/ /\ pc = "idle"
        /\ pc' = "finally"
        /\ trace' = Append(trace, "ShuttingDown")
        /\ UNCHANGED <<abortCause, server>>
     \/ /\ pc # "idle"
        /\ Abort("KeyboardInterrupt")
        /\ UNCHANGED trace
  /\ UNCHANGED <<admin, config, locals, environ, stubs, sbx, io, response, ticks,
                 requests, calls, scriptError>>

\* Mutant of ServerQuit: the finally clause does not call server.quit().
ServerQuit_NotCalled ==
  /\ pc = "finally"
  /\ trace' = Append(trace, "Terminated")
  /\ pc' = "terminated"
  /\ UNCHANGED <<admin, config, locals, environ, stubs, sbx, server, io, outside,
                 abortCause, calls, scriptError>>

\* lines 169-170: the finally clause calls server.quit()
ServerQuit ==
  /\ pc = "finally"
  /\ calls' = Called("quit")
  /\ pc' = "quit"
  /\ UNCHANGED <<admin, config, locals, environ, stubs, sbx, server, io, outside,
                 trace, abortCause, scriptError>>

\* server.quit() returns: the server has stopped accepting and released its
\* port; main() returns and the process exits
QuitReturns ==
  /\ pc = "quit"
  /\ server' = [server EXCEPT !.state = "stopped"]
  /\ trace' = Append(trace, "Terminated")
  /\ pc' = "terminated"
  /\ UNCHANGED <<admin, config, locals, environ, stubs, sbx, io, outside,
                 abortCause, calls, scriptError>>

----------------------------------------------------------------------------
\* The WSGI server's threads

\* What the hosted request-handling chain answers: decided by the hosted
\* application.
RequestHandlerCall(app, method, path, status) ==
  [status |-> status, reason |-> "hosted", content_type |-> "text/html",
   body |-> <<"hosted", "application">>]

\* The application object the server calls for a request.
Dispatch(app, method, path, status) ==
  IF app.kind = "StartupScriptFailureApplication"
    THEN FailureAppCall(app, method, path)
    ELSE RequestHandlerCall(app, method, path, status)

\* Hosted code that prints writes a line to sys.stdout; the failure
\* application never prints.
app_prints(app, prints) ==
  IF prints /\ app.kind # "StartupScriptFailureApplication"
    THEN WriteLine(<<"hosted", "output">>)
    ELSE UNCHANGED io

\* A client connects to the bound port and the server calls its
\* application.  Hosted code may print while it handles the request.
HandleRequest ==
  /\ server.state = "serving"
  /\ requests < MaxRequests
  /\ requests' = requests + 1
  /\ \E method \in Methods, path \in Paths, status \in {200, 404},
        prints \in BOOLEAN :
       /\ app_prints(server.app, prints)
       /\ response' = [method |-> method, path |-> path,
                       app |-> server.app.kind, sys_stdout |-> sys_stdout,
                       result |-> Dispatch(server.app, method, path, status)]
  /\ UNCHANGED <<admin, pc, config, locals, environ, stubs, sbx, server,
                 signals,
                 ticks, trace, abortCause, calls, scriptError>>

Next ==
  \/ DecodeConfig
  \/ CheckStartupScript
  \/ ExecStartupScript
  \/ ReadPrivateIp
  \/ ReadLoginIp
  \/ CreateFailureServer
  \/ SetupStubs
  \/ EnableSandbox
  \/ ImportRequestHandler
  \/ SetEnviron
  \/ CreateRealServer
  \/ ServerStart
  \/ PrintPort
  \/ CloseStdout
  \/ RebindStdout
  \/ SleepTick
  \/ KeyboardInterrupt
  \/ ServerQuit
  \/ QuitReturns
  \/ HandleRequest

Spec == Init /\ [][Next]_vars

----------------------------------------------------------------------------
\* Properties

InTrace(state) == \E i \in 1..Len(trace) : trace[i] = state

\* Position of a lifecycle state in the trace, 0 when it was never entered.
Position(state) ==
  IF InTrace(state) THEN CHOOSE i \in 1..Len(trace) : trace[i] = state ELSE 0

FailureKind == "StartupScriptFailureApplication"
RealKind == "runtime_rewriter_middleware"

\* C1: at every moment of the process's life the primary output stream holds
\* at most one line, that line is the decimal text of the port the server
\* bound, and once the handshake has been sent it holds exactly that line.
C1_SinglePortLine ==
  /\ Len(stdout) <= 1
  /\ Len(stdout) = 1 =>
       /\ server.state \in {"serving", "stopped", "dead"}
       /\ stdout[1] = ToDecimal(server.port)
  /\ InTrace("HandshakeSent") => Len(stdout) = 1

\* C2: when the startup script has raised, any server that exists has the
\* StartupScriptFailureApplication built from that error as its handler,
\* and every request, whatever its method and path, is answered with status
\* 500 and a body that contains the exception's message.
C2_FailureAppServes ==
  scriptError # NoError =>
    /\ server.state # "none" =>
         /\ server.app.kind = FailureKind
         /\ server.app = debugging_app
         /\ server.app.exception_message = scriptError.msg
    /\ response # None =>
         /\ response.app = FailureKind
         /\ response.result.status = 500
         /\ Contains(response.result.body, scriptError.msg)

\* A POST to a path other than / has been answered after the script raised.
C2_Witness ==
  /\ scriptError.cls = "SyntaxError"
  /\ response # None
  /\ response.method = "POST"
  /\ response.path = "/_ah/start"
  /\ requests = MaxRequests

\* C3: when the decoded configuration names no startup script, the failure
\* application is never built and never served: the only handler a server
\* gets is the RequestHandler wrapped in the rewriting middleware, with or
\* without a Cloud SQL sub-record.
C3_NoScriptNoFailureApp ==
  (config # None /\ config.python_config.startup_script = "") =>
    /\ debugging_app = None
    /\ calls.execfile = 0
    /\ server.state # "none" => server.app = RealApplication(config)
    /\ response # None => response.app = RealKind

\* Without a startup script and with a Cloud SQL sub-record, the server
\* serves a request.
C3_Witness ==
  /\ config # None
  /\ config.python_config.startup_script = ""
  /\ config.cloud_sql_config.present
  /\ server.state = "serving"
  /\ response # None

\* C4: enable_sandbox is called at most once, only after setup_stubs has
\* returned, and the request_handler module is imported and the real chain
\* built only with the sandbox active after exactly one activation.
C4_SandboxBeforeRealChain ==
  /\ calls.enable_sandbox <= 1
  /\ calls.enable_sandbox = 1 =>
       /\ calls.setup_stubs = 1
       /\ remote_api # None
       /\ InTrace("StubsWired")
  /\ sandbox => Position("StubsWired") < Position("Sandboxed")
  /\ request_handler # "not imported" =>
       /\ request_handler = "imported sandboxed"
       /\ sandbox
       /\ calls.enable_sandbox = 1
  /\ (server.state # "none" /\ server.app.kind = RealKind) =>
       /\ request_handler = "imported sandboxed"
       /\ sandbox
       /\ calls.enable_sandbox = 1
       /\ Position("Sandboxed") < Position("ServingReal")

\* The real chain is being served after the sandbox was activated.
C4_Witness ==
  /\ server.state = "serving"
  /\ server.app.kind = RealKind
  /\ sandbox
  /\ response # None

\* C5: standard output is closed and rebound only after the port has been
\* announced, and the hosted request-handling chain handles a request only
\* when sys.stdout has already been rebound to stderr.
C5_RedirectBeforeApplicationCode ==
  /\ sys_stdout # "stdout" => InTrace("HandshakeSent")
  /\ (response # None /\ response.app = RealKind) =>
       response.sys_stdout = "stderr"

\* C6: an error raised by the startup script never leaves main(): it is
\* turned into the StartupScriptFailureApplication carrying its message, and
\* once the launcher idles the port has been announced.
C6_ScriptErrorContained ==
  scriptError # NoError =>
    /\ abortCause \notin {"startup_script", "exception_message"}
    /\ debugging_app # None
    /\ debugging_app.exception_message = scriptError.msg
    /\ InTrace("Idle") => \E i \in 1..Len(stdout) :
                            stdout[i] = ToDecimal(server.port)

\* What a fatal step leaves behind.
DecodeFailed == pc # "decode" /\ config = None
StubsFailed == calls.setup_stubs = 1 /\ remote_api = None
BindFailed == calls.start = 1 /\ server.state = "created"

\* C7: when the configuration does not decode, setup_stubs fails or the
\* server fails to bind, main() is left at once: nothing has been or will be
\* written to the primary output stream, no server serves, and the idle loop
\* is never entered.
C7_FatalErrorsAbort ==
  /\ []((DecodeFailed \/ StubsFailed \/ BindFailed) =>
          /\ pc = "aborted"
          /\ abortCause # "none"
          /\ stdout = <<>>
          /\ server.state \notin {"serving", "stopped"}
          /\ ~InTrace("HandshakeSent")
          /\ ~InTrace("Idle"))
  /\ [][pc = "aborted" => UNCHANGED <<pc, stdout, trace>>]_vars

\* The bind of the server of the real chain has failed.
C7_Witness ==
  /\ BindFailed
  /\ abortCause = "bind"
  /\ server.app.kind = RealKind

\* The main thread keeps running: the finally clause calls server.quit(),
\* and server.quit() returns.
LiveSpec == Spec /\ WF_vars(ServerQuit) /\ WF_vars(QuitReturns)

C9_IdleOnlyLeftBySignal ==
  /\ [][pc = "idle" =>
          (pc' = "idle" \/ (signals' = signals + 1 /\ pc' = "finally"))]_vars
  /\ [][(pc = "idle" /\ ticks' # ticks) =>
          (pc' = "idle" /\ server' = server)]_vars
  /\ [](pc = "idle" => server.state = "serving")

\* The launcher has idled for every tick the model allows, without a signal.
C9_Witness ==
  /\ pc = "idle"
  /\ ticks = MaxTicks
  /\ signals = 0
  /\ response # None

LifecycleEnd ==
  <<"ServerStarted", "HandshakeSent", "Idle", "ShuttingDown", "Terminated">>

\* The three complete lifecycles.
Lifecycles ==
  { <<"Starting", "AwaitingStartupScript", "Failed", "ServingFailure">>
      \o LifecycleEnd,
    <<"Starting", "AwaitingStartupScript", "StubsWired", "Sandboxed",
      "ServingReal">> \o LifecycleEnd,
    <<"Starting", "StubsWired", "Sandboxed", "ServingReal">> \o LifecycleEnd }

IsPrefix(s, t) == Len(s) <= Len(t) /\ SubSeq(t, 1, Len(s)) = s

Last(s) == s[Len(s)]

\* C10: the lifecycle states entered so far are an initial part of one of
\* the three lifecycles, and the main thread is where the last state says;
\* the startup script runs at most once, only when configured and before
\* any stub wiring or sandboxing; the failure branch never calls setup_stubs
\* or enable_sandbox; start and quit are called at most once.  An execution
\* cut short by a fatal error or an interrupt stops inside its lifecycle.
C10_Lifecycle ==
  /\ \E l \in Lifecycles : IsPrefix(trace, l)
  /\ calls.execfile <= 1 /\ calls.setup_stubs <= 1 /\ calls.start <= 1
  /\ calls.execfile = 1 => config.python_config.startup_script # ""
  /\ InTrace("AwaitingStartupScript") =>
       config.python_config.startup_script # ""
  /\ (pc = "execfile" \/ calls.execfile = 1) => InTrace("AwaitingStartupScript")
  /\ pc = "execfile" => calls.setup_stubs = 0 /\ calls.enable_sandbox = 0
  /\ InTrace("Failed") =>
       /\ calls.setup_stubs = 0 /\ calls.enable_sandbox = 0
       /\ remote_api = None /\ ~sandbox
  /\ InTrace("StubsWired") <=> remote_api # None
  /\ InTrace("Sandboxed") <=> sandbox
  /\ InTrace("ServerStarted") <=> server.state \in {"serving", "stopped", "dead"}
  /\ InTrace("HandshakeSent") <=>
       \E i \in 1..Len(stdout) : stdout[i] = ToDecimal(server.port)
  /\ pc = "start" => Last(trace) \in {"ServingFailure", "ServingReal"}
  /\ pc = "print" => Last(trace) = "ServerStarted"
  /\ pc \in {"close", "rebind"} => Last(trace) = "HandshakeSent"
  /\ pc = "idle" => Last(trace) = "Idle"
  /\ pc \in {"finally", "quit"} => Last(trace) = "ShuttingDown"
  /\ pc = "terminated" <=> trace \in Lifecycles

\* A process whose startup script ran without error has gone through the
\* whole real lifecycle.
C10_Witness ==
  /\ pc = "terminated"
  /\ InTrace("AwaitingStartupScript")
  /\ InTrace("ServingReal")

ServerHasStarted == server.state \in {"serving", "stopped", "dead"}

\* C11: the decoded configuration, the API stub with the database binding
\* and connect parameters, and the sandbox state are each written at most
\* once, and no step taken after server.start() has succeeded writes any
\* of them.
C11_WriteOnce ==
  /\ [][config # None => config' = config]_vars
  /\ [][remote_api # None =>
          UNCHANGED <<remote_api, rdbms, connect_kwargs>>]_vars
  /\ [][sandbox => UNCHANGED <<sandbox, expanduser>>]_vars
  /\ [][ServerHasStarted =>
          UNCHANGED <<config, remote_api, rdbms, connect_kwargs, sandbox,
                      expanduser>>]_vars
  /\ [](calls.setup_stubs <= 1 /\ calls.enable_sandbox <= 1)
  /\ [](ServerHasStarted /\ server.app.kind = RealKind =>
          config # None /\ remote_api # None /\ sandbox)

\* The real chain has served a request and the launcher idles, with all
\* three written, the database parameters included.
C11_Witness ==
  /\ pc = "idle"
  /\ ticks > 0
  /\ response # None
  /\ sandbox
  /\ remote_api # None
  /\ rdbms = "rdbms_mysqldb"

\* C12: once setup_stubs has run with a cloud_sql_config, the unix_socket
\* connect parameter is the configured mysql_socket when there is one;
\* otherwise, on a posix system with mysql_host "localhost", it is whatever
\* FindUnixSocket() returned; otherwise no unix_socket parameter is set.
\* FindUnixSocket() is called in the second case only.  Without a
\* cloud_sql_config the rdbms module is not replaced and no connect
\* parameters are installed.
C12_SocketParameter ==
  remote_api # None =>
    LET sql == config.cloud_sql_config
    IN IF ~sql.present
         THEN /\ rdbms = "rdbms"
              /\ connect_kwargs = NoKwargs
              /\ platform = NoPlatform
         ELSE /\ rdbms = "rdbms_mysqldb"
              /\ connect_kwargs.host = sql.mysql_host
              /\ connect_kwargs.port = sql.mysql_port
              /\ connect_kwargs.user = sql.mysql_user
              /\ connect_kwargs.passwd = sql.mysql_password
              /\ CASE sql.mysql_socket # "" ->
                       /\ connect_kwargs.has_unix_socket
                       /\ connect_kwargs.unix_socket = <<sql.mysql_socket>>
                       /\ platform.FindUnixSocket = <<"not called">>
                   [] /\ sql.mysql_socket = ""
                      /\ platform.os_name = "posix"
                      /\ sql.mysql_host = "localhost" ->
                       /\ connect_kwargs.has_unix_socket
                       /\ platform.FindUnixSocket \in FoundSockets
                       /\ connect_kwargs.unix_socket = platform.FindUnixSocket
                   [] OTHER ->
                       /\ ~connect_kwargs.has_unix_socket
                       /\ platform.FindUnixSocket = <<"not called">>

\* setup_stubs took the socket path from FindUnixSocket(), and the server
\* was started with it.
C12_Witness ==
  /\ pc = "idle"
  /\ config.cloud_sql_config.present
  /\ config.cloud_sql_config.mysql_socket = ""
  /\ connect_kwargs.has_unix_socket
  /\ connect_kwargs.unix_socket = <<"/var/run/mysqld/mysqld.sock">>

LookupFailed == platform.FindUnixSocket = NoneStr

\* C13 as stated: when FindUnixSocket() returns None, exactly one warning
\* has been logged.
C13_LoggedOnce == LookupFailed => Len(log) = 1

\* C13: when FindUnixSocket() returns None, setup_stubs logs nothing and
\* does not fail: it installs unix_socket=None and returns, and main() goes
\* on to enable_sandbox.  The lookup is made at most once, in setup_stubs.
C13_LookupFailureNotFatal ==
  /\ log = <<>>
  /\ LookupFailed =>
       /\ calls.setup_stubs = 1
       /\ abortCause # "setup_stubs"
       /\ InTrace("StubsWired")
       /\ connect_kwargs.has_unix_socket
       /\ connect_kwargs.unix_socket = NoneStr
       /\ pc # "branch"

\* After a lookup that returned None the sandbox was enabled, the server
\* started and its port was announced.
C13_Witness ==
  /\ LookupFailed
  /\ sandbox
  /\ server.state = "serving"
  /\ InTrace("HandshakeSent")
  /\ pc = "idle"

\* Both variables hold what was read from the two files: the stripped
\* private IP and the first line of the login IP file.
EnvironSet ==
  /\ environ.MY_IP_ADDRESS \in {Strip(content) : content \in PrivateIpFiles}
  /\ environ.NGINX_HOST \in {FirstLine(raw_ips) : raw_ips \in LoginIpFiles}
  /\ environ.MY_IP_ADDRESS = my_ip_address
  /\ environ.NGINX_HOST = nginx_host
  /\ environ.MY_IP_ADDRESS # <<>>
  /\ ~IsSpace(Head(environ.MY_IP_ADDRESS))
  /\ ~IsSpace(Last(environ.MY_IP_ADDRESS))
  /\ ~Contains(environ.NGINX_HOST, <<"NL">>)

\* C14: on the real path MY_IP_ADDRESS and NGINX_HOST are set from the two
\* files before the RequestHandler is constructed and before the server
\* starts, and they are not changed afterwards: the hosted chain never
\* handles a request while either is unset.
C14_EnvironBeforeHandler ==
  /\ [](server.app.kind = RealKind => EnvironSet)
  /\ [](response # None /\ response.app = RealKind => EnvironSet)
  /\ [][server.app = None /\ server'.app.kind = RealKind => EnvironSet]_vars
  /\ [][server.app.kind = RealKind => environ' = environ]_vars
  /\ [](server.app.kind = FailureKind =>
          environ = [MY_IP_ADDRESS |-> NoneStr, NGINX_HOST |-> NoneStr])

\* The hosted chain has handled a request with both variables set.
C14_Witness ==
  /\ response # None
  /\ response.app = RealKind
  /\ server.state = "serving"
  /\ environ = [MY_IP_ADDRESS |-> <<"7">>, NGINX_HOST |-> <<"9">>]

\* The request carries an app_id, is authenticated and has a body that
\* loads into a valid queue configuration.
Acceptable(req) ==
  /\ req.app_id # ""
  /\ req.authenticated
  /\ req.body.yaml = "ok"
  /\ req.body.doc.valid

\* The JSON document of the queues a request names.
ExpectedJson(req) ==
  <<"{", "queue:", "[">> \o req.body.doc.queue \o <<"]", "}">>

\* C15: a post() that completes successfully was for an acceptable
\* request and has written the queue node exactly once, by set when the
\* node existed and by create when set reported no node; the write stores
\* the JSON of the queues of that request, and the node holds it until
\* another request writes the node.
C15_Upsert ==
  /\ [](\A h \in Handlers :
          outcome[h] = "200" =>
            /\ Acceptable(hreq[h])
            /\ writes[h].done = 1
            /\ zk.queues.exists
            /\ zk.queues.writer = h =>
                 zk.queues.data = ExpectedJson(hreq[h]))
  /\ [](zk.queues.writer # 0 =>
          zk.queues.data = ExpectedJson(hreq[zk.queues.writer]))
  /\ [][\A h \in Handlers :
          writes'[h].done > writes[h].done =>
            /\ zk'.queues = [exists |-> TRUE, data |-> ExpectedJson(hreq[h]),
                             writer |-> h]
            /\ zk.queues.exists <=> writes'[h].attempts = 1]_vars

\* One request was answered 200 after creating the node and the other
\* after replacing its content.
C15_Witness ==
  /\ outcome[1] = "200"
  /\ writes[1] = [attempts |-> 2, done |-> 1]
  /\ outcome[2] = "200"
  /\ writes[2] = [attempts |-> 1, done |-> 1]
  /\ zk.queues.data = ExpectedJson(hreq[2])
  /\ hreq[1].body # hreq[2].body

Rejected(h) == outcome[h] \notin {"none", "200"}

\* C16: a request without app_id, that fails authentication, whose body
\* does not parse or whose queue configuration is invalid ends in an error
\* without any write having been attempted; a request answered 404 found
\* no project node, and both its set and its create reported no node.  No
\* rejected request has written the queue node, the step that rejects a
\* request leaves ZooKeeper as it is, and a write is only ever attempted
\* for a request that passed all the checks.
C16_RejectedLeavesZk ==
  /\ [](\A h \in Handlers :
          hreq[h] # NoRequest /\ ~Acceptable(hreq[h]) =>
            /\ Rejected(h)
            /\ hpc[h] = "done"
            /\ writes[h] = NoWrites)
  /\ [](\A h \in Handlers :
          /\ hreq[h] # NoRequest /\ hreq[h].app_id = "" =>
               outcome[h] = "400 app_id parameter is required"
          /\ hreq[h].app_id # "" /\ ~hreq[h].authenticated =>
               outcome[h] = "authentication failed"
          /\ (/\ hreq[h].app_id # "" /\ hreq[h].authenticated
              /\ hreq[h].body.yaml = "ok" /\ ~hreq[h].body.doc.valid) =>
               outcome[h] = "400 invalid configuration")
  /\ [](\A h \in Handlers :
          outcome[h] = "404 not found" =>
            /\ ~zk.project
            /\ ~zk.queues.exists
            /\ writes[h] = [attempts |-> 2, done |-> 0])
  /\ [](\A h \in Handlers : Rejected(h) => writes[h].done = 0)
  /\ [](\A h \in Handlers : writes[h].attempts > 0 => Acceptable(hreq[h]))
  /\ []((\A h \in Handlers : outcome[h] # "200" /\ hpc[h] = "done") =>
          zk \in ZkStates)
  /\ [][\A h \in Handlers :
          outcome'[h] # outcome[h] /\ outcome'[h] # "200" => zk' = zk]_vars

\* All requests were rejected, each for a different reason, one of them
\* with 404 after set and create both reported no node.
C16_Witness ==
  /\ outcome[1] = "404 not found"
  /\ writes[1].attempts = 2
  /\ outcome[2] = "400 invalid configuration"
  /\ \A h \in Handlers : hpc[h] = "done" /\ Rejected(h)

\* C17: whenever the launcher has left main() after server.start()
\* succeeded, server.quit() has been called.
C17_QuitAlwaysCalled ==
  ServerHasStarted /\ pc \in {"terminated", "aborted"} => calls.quit = 1

\* C18: a request that passed all the checks and found the project node
\* completes with 200, however the set and create steps of the requests
\* interleave.
C18_ConcurrentUpsertsComplete ==
  \A h \in Handlers :
    Acceptable(hreq[h]) /\ zk.project /\ hpc[h] = "done" => outcome[h] = "200"

====
